---- MODULE Spec2Model ----
(***************************************************************************)
(* Model of src/app.py: the response post-processing of the SEO content    *)
(* generator (directive extraction, FAQ location, FAQ schema building and  *)
(* the generation flow that strings them together).                        *)
(*                                                                         *)
(* Text is a sequence of one-character strings, so that the regular        *)
(* expressions and string methods of the source are modelled by what they  *)
(* do to characters.  Python's None is the empty tuple None and a present  *)
(* value v is the one-element tuple Some(v).                               *)
(***************************************************************************)
EXTENDS Integers, Sequences, FiniteSets, TLC

\* ------------------------------------------------------------------ bounds

\* The most free lines after the heading of a scanned response.
MaxLines == 3
\* The most Q:/A: line pairs of a response of the "pairs in direct sequence" shape.
MaxPairs == 2
\* The most characters of a string cell of a table literal.
MaxCell == 2
\* The most directive candidates of either tag in one response.
MaxCands == 3

\* ------------------------------------------------------- characters, text

Min(S) == CHOOSE x \in S : \A y \in S : x <= y
Max(S) == CHOOSE x \in S : \A y \in S : x >= y

None == <<>>
Some(v) == <<v>>

\* str.strip() and the regular expressions' \s: white space (the line break is one).
IsSpace(c) == c \in {" ", "\n", "\t"}
\* str.splitlines(): the characters that end a line.
IsLineBreak(c) == c = "\n"
\* re.IGNORECASE: letters are compared by their lower-case form.
Lower(c) ==
  CASE c = "F" -> "f" [] c = "A" -> "a" [] c = "Q" -> "q" [] c = "S" -> "s"
    [] OTHER -> c

Drop(s, n) == SubSeq(s, n + 1, Len(s))

\* s has p at index i (1-based), case-sensitively: str.startswith, a literal in a pattern.
MatchAt(s, i, p) ==
  /\ i >= 1
  /\ i + Len(p) - 1 <= Len(s)
  /\ \A k \in 1..Len(p) : s[i + k - 1] = p[k]
\* The same under re.IGNORECASE.
MatchAtI(s, i, p) ==
  /\ i >= 1
  /\ i + Len(p) - 1 <= Len(s)
  /\ \A k \in 1..Len(p) : Lower(s[i + k - 1]) = Lower(p[k])

StartsWith(s, p) == MatchAt(s, 1, p)

\* The length of the longest run of white space of s that starts at index i.
SpaceRun(s, i) ==
  LET stops == {j \in i..Len(s) : ~IsSpace(s[j])}
  IN  IF stops = {} THEN (IF i > Len(s) THEN 0 ELSE Len(s) - i + 1) ELSE Min(stops) - i

\* str.strip()
Strip(s) ==
  LET keep == {i \in 1..Len(s) : ~IsSpace(s[i])}
  IN  IF keep = {} THEN <<>> ELSE SubSeq(s, Min(keep), Max(keep))

\* str.splitlines(): no empty last line after a final line break.
RECURSIVE SplitLines(_)
SplitLines(s) ==
  IF s = <<>> THEN <<>>
  ELSE LET brk == {i \in 1..Len(s) : IsLineBreak(s[i])}
       IN  IF brk = {} THEN <<s>>
           ELSE <<SubSeq(s, 1, Min(brk) - 1)>> \o SplitLines(Drop(s, Min(brk)))

\* str.replace(old, ""): every non-overlapping occurrence, left to right.
RECURSIVE Remove(_, _)
Remove(s, old) ==
  IF s = <<>> THEN <<>>
  ELSE IF MatchAt(s, 1, old) THEN Remove(Drop(s, Len(old)), old)
  ELSE <<s[1]>> \o Remove(Drop(s, 1), old)

\* str.split(sep): the parts between the non-overlapping occurrences of sep.
RECURSIVE Split(_, _)
Split(s, sep) ==
  LET hits == {i \in 1..Len(s) : MatchAt(s, i, sep)}
  IN  IF hits = {} THEN <<s>>
      ELSE <<SubSeq(s, 1, Min(hits) - 1)>> \o Split(Drop(s, Min(hits) + Len(sep) - 1), sep)

\* ------------------------------------------------- extract_faqs_from_text

VARIABLES
  pc,        \* the position of the code being run
  content,   \* the text handed to the function (the model's response)
  faq_text,  \* content[start:], the text from the FAQ heading on
  lines,     \* the lines of faq_text still to be scanned
  q, a,      \* the current question and answer of the scan (None or Some(text))
  faqs,      \* the pairs found so far, then the function's result
  given,     \* how the text was built: None, or Some of the parts it was built from
  topic,     \* the topic text input (line 63)
  did,       \* what the run has done so far that the user or the outside can see
  error,     \* None, or Some of the place an exception was raised at
  raw_tables, raw_graphs,    \* the candidates find_blocks returned
  display_content,           \* the article without its directive blocks
  idx,                       \* the candidate the current loop is at (from 1)
  rendered_tables_html, rendered_graphs_html,
  warnings,  \* the st.warning calls: <<tag, idx>>, in order
  tried,     \* the candidates whose try block ran: [tag, idx, ok], in order
  faq_schema,                \* None for "", or Some of the schema
  final_html,                \* None, or Some of the assembled document
  downloads                  \* the download buttons offered

faqVars == <<faq_text, lines, q, a>>
flowVars == <<topic, did, error, raw_tables, raw_graphs, display_content, idx,
              rendered_tables_html, rendered_graphs_html, warnings, tried,
              faq_schema, final_html, downloads>>
vars == <<pc, content, faqs, given, faqVars, flowVars>>

\* The three alternatives of the heading pattern (line 125).
HeaderPatterns ==
  { <<"F","r","e","q","u","e","n","t","l","y"," ","A","s","k","e","d"," ",
      "Q","u","e","s","t","i","o","n","s">>,
    <<"F","A","Q","s">>,
    <<"F","A","Q">> }

\* A variant of SearchHeader that takes the whole text for the FAQ section when
\* no heading is found.
SearchHeaderOrTop(s) ==
  LET hits == {i \in 1..Len(s) : \E p \in HeaderPatterns : MatchAtI(s, i, p)}
  IN  IF hits = {} THEN (IF s = <<>> THEN 0 ELSE 1) ELSE Min(hits)

\* re.search(...).start() as a 1-based index, 0 when nothing matches.
SearchHeader(s) ==
  LET hits == {i \in 1..Len(s) : \E p \in HeaderPatterns : MatchAtI(s, i, p)}
  IN  IF hits = {} THEN 0 ELSE Min(hits)

QPrefixes == { <<"Q", ":">>, <<"Q", ".">> }
APrefixes == { <<"A", ":">>, <<"A", ".">> }

\* re.match(r"^(Q:|Q\.)", line_strip, flags=re.IGNORECASE)
IsQLine(ls) == \E p \in QPrefixes : MatchAtI(ls, 1, p)
\* re.match(r"^(A:|A\.)", line_strip, flags=re.IGNORECASE)
IsALine(ls) == \E p \in APrefixes : MatchAtI(ls, 1, p)
\* re.sub(r"^(Q:|Q\.)\s*", "", line_strip): the two-character marker and the
\* white space after it are removed (the same for A).
SubMarker(ls) == Drop(ls, 2 + SpaceRun(ls, 3))
\* line_strip.startswith("- Q:") or line_strip.startswith("* Q:")
IsBulletQLine(ls) ==
  \/ StartsWith(ls, <<"-", " ", "Q", ":">>)
  \/ StartsWith(ls, <<"*", " ", "Q", ":">>)

\* Python's truth of an optional string: not None and not empty.
Truthy(o) == o # None /\ o[1] # <<>>

Pair(qt, at) == [question |-> qt, answer |-> at]

\* A variant of Commit that tests the question alone ("if q:").
CommitOnQuestionAlone(cq, ca, out) ==
  IF Truthy(cq)
    THEN Append(out, Pair(Strip(cq[1]), IF ca = None THEN <<>> ELSE Strip(ca[1])))
    ELSE out

\* "if q and a: faqs.append({...})" (lines 140-141, 147-148, 156-157)
Commit(cq, ca, out) ==
  IF Truthy(cq) /\ Truthy(ca) THEN Append(out, Pair(Strip(cq[1]), Strip(ca[1]))) ELSE out

\* parts[0].replace("- Q:", "").replace("* Q:", "").replace("Q:", "").strip()
BulletQuestion(ls) ==
  Strip(Remove(Remove(Remove(Split(ls, <<"A", ":">>)[1], <<"-", " ", "Q", ":">>),
                      <<"*", " ", "Q", ":">>), <<"Q", ":">>))
\* parts[1].strip() if len(parts) > 1 else ""
BulletAnswer(ls) ==
  LET parts == Split(ls, <<"A", ":">>)
  IN  IF Len(parts) > 1 THEN Strip(parts[2]) ELSE <<>>

\* A variant of ScanLine that appends a continuation line without the space.
ScanLineNoSpace(st, line) ==
  LET ls == Strip(line)
  IN  IF IsQLine(ls)
        THEN [q |-> Some(SubMarker(ls)), a |-> Some(<<>>),
              faqs |-> Commit(st.q, st.a, st.faqs)]
      ELSE IF IsALine(ls)
        THEN [st EXCEPT !.a = Some(SubMarker(ls))]
      ELSE IF IsBulletQLine(ls)
        THEN [q |-> Some(BulletQuestion(ls)), a |-> Some(BulletAnswer(ls)),
              faqs |-> Commit(st.q, st.a, st.faqs)]
      ELSE IF st.a # None
        THEN [st EXCEPT !.a = Some(st.a[1] \o ls)]
      ELSE st

\* A variant of ScanLine that starts a new question without committing the pair
\* before it.
ScanLineNoCommit(st, line) ==
  LET ls == Strip(line)
  IN  IF IsQLine(ls)
        THEN [q |-> Some(SubMarker(ls)), a |-> Some(<<>>), faqs |-> st.faqs]
      ELSE IF IsALine(ls)
        THEN [st EXCEPT !.a = Some(SubMarker(ls))]
      ELSE IF IsBulletQLine(ls)
        THEN [q |-> Some(BulletQuestion(ls)), a |-> Some(BulletAnswer(ls)),
              faqs |-> st.faqs]
      ELSE IF st.a # None
        THEN [st EXCEPT !.a = Some(st.a[1] \o <<" ">> \o ls)]
      ELSE st

\* One turn of the loop over lines[1:] (lines 137-155) on the scan state st.
ScanLine(st, line) ==
  LET ls == Strip(line)
  IN  IF IsQLine(ls)
        THEN [q |-> Some(SubMarker(ls)), a |-> Some(<<>>),
              faqs |-> Commit(st.q, st.a, st.faqs)]
      ELSE IF IsALine(ls)
        THEN [st EXCEPT !.a = Some(SubMarker(ls))]
      ELSE IF IsBulletQLine(ls)
        THEN [q |-> Some(BulletQuestion(ls)), a |-> Some(BulletAnswer(ls)),
              faqs |-> Commit(st.q, st.a, st.faqs)]
      ELSE IF st.a # None
        THEN [st EXCEPT !.a = Some(st.a[1] \o <<" ">> \o ls)]
      ELSE st

\* The fallback pattern's classes (line 160); '.' does not match a line break.
IsBullet(c) == c \in {"-", "*"}
IsDash(c) == c = "-"
IsDot(c) == ~IsLineBreak(c)

\* The last index of the run of '.' characters of s that starts at index i.
DotEnd(s, i) ==
  LET stops == {j \in i..Len(s) : ~IsDot(s[j])}
  IN  IF stops = {} THEN Len(s) ELSE Min(stops) - 1

\* Where group 2, (.+), starts after the dash at index d: \s* is greedy and gives
\* back white space until a '.' character follows; 0 when none does.
AnswerStart(s, d) ==
  LET ok == {e \in (d + 1)..(d + 1 + SpaceRun(s, d + 1)) : e <= Len(s) /\ IsDot(s[e])}
  IN  IF ok = {} THEN 0 ELSE Max(ok)

\* The dash of a match whose group 1, (.+?), is s[g..g+m-1]: 0 when there is none.
DashAfter(s, g, m) ==
  LET d == g + m + SpaceRun(s, g + m)
  IN  IF /\ g + m - 1 <= Len(s)
         /\ \A i \in g..(g + m - 1) : IsDot(s[i])
         /\ d <= Len(s)
         /\ IsDash(s[d])
         /\ AnswerStart(s, d) # 0
      THEN d ELSE 0

\* The match of the fallback pattern that starts at index p, as the backtracking
\* matcher finds it: the first \s* as long as possible, then group 1 as short as
\* possible.  None, or Some of the two groups and the index the match ends at.
BulletMatch(s, p) ==
  IF ~IsBullet(s[p]) THEN None
  ELSE
    LET ks == {k \in 0..SpaceRun(s, p + 1) :
                 \E m \in 1..Len(s) : DashAfter(s, p + 1 + k, m) # 0}
    IN  IF ks = {} THEN None
        ELSE LET g == p + 1 + Max(ks)
                 m == Min({n \in 1..Len(s) : DashAfter(s, g, n) # 0})
                 e == AnswerStart(s, DashAfter(s, g, m))
             IN  Some([qtxt |-> SubSeq(s, g, g + m - 1),
                       atxt |-> SubSeq(s, e, DotEnd(s, e)),
                       end  |-> DotEnd(s, e)])

\* re.findall of the fallback pattern from index p on, each match stripped
\* (lines 160-162).
RECURSIVE Bullets(_, _)
Bullets(s, p) ==
  LET hits == {i \in p..Len(s) : BulletMatch(s, i) # None}
  IN  IF hits = {} THEN <<>>
      ELSE LET m == BulletMatch(s, Min(hits))[1]
           IN  <<Pair(Strip(m.qtxt), Strip(m.atxt))>> \o Bullets(s, m.end + 1)

\* "if not faqs:" the secondary pass (lines 159-162)
Fallback(text, found) == IF found = <<>> THEN Bullets(text, 1) ELSE found

RECURSIVE ScanAll(_, _)
ScanAll(st, ls) == IF ls = <<>> THEN st ELSE ScanAll(ScanLine(st, Head(ls)), Tail(ls))

\* extract_faqs_from_text as a whole (lines 114-163).
ExtractFaqs(s) ==
  IF SearchHeader(s) = 0 THEN <<>>
  ELSE LET text == Drop(s, SearchHeader(s) - 1)
           st   == ScanAll([q |-> None, a |-> None, faqs |-> <<>>], Tail(SplitLines(text)))
       IN  Fallback(text, Commit(st.q, st.a, st.faqs))

\* ------------------------------------------------------------ the inputs

RECURSIVE JoinLines(_)
JoinLines(ls) ==
  IF ls = <<>> THEN <<>>
  ELSE IF Len(ls) = 1 THEN ls[1]
  ELSE ls[1] \o <<"\n">> \o JoinLines(Tail(ls))

\* All sequences over S of length at most n.
SeqsUpTo(S, n) == UNION {[1..k -> S] : k \in 0..n}

\* Lines a response may hold after (or without) its FAQ heading.
LineShapes ==
  { <<"Q", ":", " ", "x">>,
    <<"Q", ":">>,
    <<"q", ".", " ", "y", " ">>,
    <<"A", ":", " ", "u">>,
    <<"A", ":">>,
    <<>>,
    <<"w">>,
    <<"-", " ", "Q", ":", " ", "x", " ", "A", ":", " ", "u">>,
    <<"*", " ", "Q", ":", " ", "y">>,
    <<"-", " ", "x", " ", "-", " ", "u">>,
    <<"-", " ", "-", " ", "u">> }

\* What precedes those lines: nothing (no heading at all), a heading line, or
\* article text with Q:/A: lines of its own and then a heading.
HeadShapes ==
  { <<>>,
    << <<"F", "A", "Q", "s">> >>,
    << <<"Q", ":", " ", "w">>, <<"A", ":", " ", "w">>, <<"#", " ", "f", "a", "q">> >> }

FreeInputs ==
  {JoinLines(h \o b) : h \in HeadShapes, b \in SeqsUpTo(LineShapes, MaxLines)}

\* Heading lines of a response of the "pairs in direct sequence" shape.
HeadingLines ==
  { <<"F", "A", "Q", "s">>,
    <<"F","r","e","q","u","e","n","t","l","y"," ","A","s","k","e","d"," ",
      "Q","u","e","s","t","i","o","n","s">>,
    <<"F", "A", "Q", " ", "-", " ", "x", " ", "-", " ", "u">> }
\* The texts <q> and <a> of such a response.
QTexts == { <<>>, <<"x">>, <<" ", "y", " ">> }
ATexts == { <<>>, <<"u">>, <<"v", " ", "w", " ">> }

QLine(qt) == <<"Q", ":", " ">> \o qt
ALine(at) == <<"A", ":", " ">> \o at

RECURSIVE PairLines(_)
PairLines(ps) ==
  IF ps = <<>> THEN <<>>
  ELSE <<QLine(ps[1].q), ALine(ps[1].a)>> \o PairLines(Tail(ps))

PairText(h, ps) == JoinLines(<<h>> \o PairLines(ps))

PairSeqs == SeqsUpTo([q : QTexts, a : ATexts], MaxPairs)

\* ------------------------------------- extract_faqs_from_text, step by step

\* The generation flow at rest: nothing entered, nothing done.
FlowRest ==
  /\ did = {}
  /\ error = None
  /\ raw_tables = <<>>
  /\ raw_graphs = <<>>
  /\ display_content = <<>>
  /\ idx = 1
  /\ rendered_tables_html = <<>>
  /\ rendered_graphs_html = <<>>
  /\ warnings = <<>>
  /\ tried = <<>>
  /\ faq_schema = None
  /\ final_html = None
  /\ downloads = {}

FlowIdle == topic = <<>> /\ FlowRest

FaqInit ==
  /\ pc = "faq_search"
  /\ \/ /\ content \in FreeInputs
        /\ given = None
     \/ \E h \in HeadingLines, ps \in PairSeqs :
          /\ content = PairText(h, ps)
          /\ given = Some([heading |-> h, pairs |-> ps])
  /\ faq_text = <<>>
  /\ lines = <<>>
  /\ q = None
  /\ a = None
  /\ faqs = <<>>
  /\ FlowIdle

\* Lines 125-136: the heading search, the early return, the split into lines.
FaqSearch ==
  /\ pc = "faq_search"
  /\ IF SearchHeader(content) = 0
       THEN /\ pc' = "faq_returned"
            /\ UNCHANGED <<faq_text, lines>>
       ELSE /\ pc' = "faq_scan"
            /\ faq_text' = Drop(content, SearchHeader(content) - 1)
            /\ lines' = Tail(SplitLines(Drop(content, SearchHeader(content) - 1)))
  /\ faqs' = <<>>
  /\ q' = None
  /\ a' = None
  /\ UNCHANGED <<flowVars, content, given>>

\* Lines 137-155: one turn of the loop.
FaqScanLine ==
  /\ pc = "faq_scan"
  /\ lines # <<>>
  /\ LET st == ScanLine([q |-> q, a |-> a, faqs |-> faqs], Head(lines))
     IN  /\ q' = st.q
         /\ a' = st.a
         /\ faqs' = st.faqs
  /\ lines' = Tail(lines)
  /\ UNCHANGED <<flowVars, pc, content, faq_text, given>>

\* Lines 156-157: the commit at the end of the input.
FaqScanEnd ==
  /\ pc = "faq_scan"
  /\ lines = <<>>
  /\ faqs' = Commit(q, a, faqs)
  /\ pc' = "faq_fallback"
  /\ UNCHANGED <<flowVars, content, faq_text, lines, q, a, given>>

\* Lines 159-163: the secondary pass and the return.
FaqFallback ==
  /\ pc = "faq_fallback"
  /\ faqs' = Fallback(faq_text, faqs)
  /\ pc' = "faq_returned"
  /\ UNCHANGED <<flowVars, content, faq_text, lines, q, a, given>>

FaqNext == FaqSearch \/ FaqScanLine \/ FaqScanEnd \/ FaqFallback

SpecFaq == FaqInit /\ [][FaqNext]_vars

\* The step-by-step run returns what the function as a whole returns.
FaqStepsAgree == pc = "faq_returned" => faqs = ExtractFaqs(content)

\* ------------------------------------------------------------ find_blocks

TABLE == <<"T", "A", "B", "L", "E">>
GRAPH == <<"G", "R", "A", "P", "H">>

\* The match of  TAG:\s*(\{.*?\})  under re.DOTALL that starts at index p: None,
\* or Some of the indices of the group's braces.  \s* can only stop at the "{",
\* and the lazy .*? stops at the first "}" after it, line breaks included.
BlockMatch(s, tag, p) ==
  LET open == p + Len(tag) + 1 + SpaceRun(s, p + Len(tag) + 1)
      closes == {j \in (open + 1)..Len(s) : s[j] = "}"}
  IN  IF /\ MatchAt(s, p, tag \o <<":">>)
         /\ open <= Len(s)
         /\ s[open] = "{"
         /\ closes # {}
      THEN Some([open |-> open, close |-> Min(closes)])
      ELSE None

\* re.findall from index p on: the group of each match, left to right, the
\* search going on after the match.
RECURSIVE FindBlocksFrom(_, _, _)
FindBlocksFrom(s, tag, p) ==
  LET hits == {i \in p..Len(s) : BlockMatch(s, tag, i) # None}
  IN  IF hits = {} THEN <<>>
      ELSE LET m == BlockMatch(s, tag, Min(hits))[1]
           IN  <<SubSeq(s, m.open, m.close)>> \o FindBlocksFrom(s, tag, m.close + 1)

\* find_blocks(content, tag) (lines 77-80)
FindBlocks(s, tag) == FindBlocksFrom(s, tag, 1)

\* re.sub(r"(TABLE|GRAPH):\s*\{.*?\}", "", content, flags=re.DOTALL) (line 236)
RECURSIVE RemoveBlocksFrom(_, _)
RemoveBlocksFrom(s, p) ==
  LET hits == {i \in p..Len(s) :
                 BlockMatch(s, TABLE, i) # None \/ BlockMatch(s, GRAPH, i) # None}
  IN  IF hits = {} THEN SubSeq(s, p, Len(s))
      ELSE LET h == Min(hits)
               m == IF BlockMatch(s, TABLE, h) # None
                      THEN BlockMatch(s, TABLE, h)[1] ELSE BlockMatch(s, GRAPH, h)[1]
           IN  SubSeq(s, p, h - 1) \o RemoveBlocksFrom(s, m.close + 1)

RemoveBlocks(s) == RemoveBlocksFrom(s, 1)

\* re.sub(r"\n{3,}", "\n\n", content) (line 229): of a run of three or more line
\* feeds the first two are kept.
RECURSIVE NormalizeSpacing(_)
NormalizeSpacing(s) ==
  LET thirds == {i \in 3..Len(s) : s[i] = "\n" /\ s[i - 1] = "\n" /\ s[i - 2] = "\n"}
  IN  IF thirds = {} THEN s
      ELSE LET i == Min(thirds)
               stops == {j \in i..Len(s) : s[j] # "\n"}
           IN  SubSeq(s, 1, i - 1)
                 \o (IF stops = {} THEN <<>>
                     ELSE NormalizeSpacing(SubSeq(s, Min(stops), Len(s))))

\* Where ast.literal_eval (lines 247, 260) stands on the literals of this model:
\* the nesting depth of brackets after each character, -1 from the point on where
\* the text cannot be a literal any more; a quote opens or closes a string, and
\* brackets inside a string do not count.  instr is whether a string is open.
RECURSIVE BracketDepth(_, _, _)
BracketDepth(t, depth, instr) ==
  IF t = <<>> THEN (IF instr THEN -1 ELSE depth)
  ELSE IF instr THEN BracketDepth(Tail(t), depth, t[1] # "'")
  ELSE IF t[1] = "'" THEN (IF depth = 0 THEN -1 ELSE BracketDepth(Tail(t), depth, TRUE))
  ELSE IF t[1] \in {"{", "["} THEN BracketDepth(Tail(t), depth + 1, FALSE)
  ELSE IF t[1] \in {"}", "]"}
    THEN (IF depth = 0 \/ (depth = 1 /\ Len(t) > 1) THEN -1
          ELSE BracketDepth(Tail(t), depth - 1, FALSE))
  ELSE IF depth = 0 \/ t[1] \notin {":", ",", " ", "\n"} THEN -1
  ELSE BracketDepth(Tail(t), depth, FALSE)

\* ast.literal_eval(t) returns (TRUE) or raises (FALSE).
LiteralEvalOk(t) == t # <<>> /\ t[1] = "{" /\ BracketDepth(t, 0, FALSE) = 0

\* ------------------------------------------------------ build_faq_json_ld

QuestionItem(f) ==
  [type |-> "Question", name |-> f.question,
   acceptedAnswer |-> [type |-> "Answer", text |-> f.answer]]

\* A variant of BuildFaqJsonLd without "if not items: return ''".
BuildFaqJsonLdShell(fs) ==
  Some([context |-> "https://schema.org", type |-> "FAQPage",
        mainEntity |-> [i \in 1..Len(fs) |-> QuestionItem(fs[i])]])

\* build_faq_json_ld(faqs) (lines 166-184): None stands for the empty string it
\* returns for no items, Some(schema) for the JSON text of the schema.
BuildFaqJsonLd(fs) ==
  LET items == [i \in 1..Len(fs) |-> QuestionItem(fs[i])]
  IN  IF items = <<>> THEN None
      ELSE Some([context |-> "https://schema.org", type |-> "FAQPage",
                 mainEntity |-> items])

\* ------------------------------------------------- the responses of the API

\* A table literal with one string cell: {'h':['<cell>']}
TableLiteral(cell) == <<"{", "'", "h", "'", ":", "[", "'">> \o cell \o <<"'", "]", "}">>
\* The cells: any characters, braces included.
Cells == SeqsUpTo({"x", "{", "}"}, MaxCell)

TableTag == TABLE \o <<":", " ">>
GraphTag == GRAPH \o <<":", " ">>

\* Directive lines of a response with several candidates.
GoodTable == TableTag \o TableLiteral(<<"x">>)
\* the closing brace is missing
BadTable  == TableTag \o <<"{", "'", "h", "'", ":", "[", "'", "x", "'", "]">>
GoodGraph == GraphTag \o <<"{", "'", "t", "'", ":", "'", "x", "'", "}">>
\* the string is never closed
BadGraph  == GraphTag \o <<"{", "'", "t", "'", ":", "'", "x", "}">>
DirectiveLines == {GoodTable, BadTable, GoodGraph, BadGraph}

\* What follows the directives: nothing, or an FAQ section.
FaqTails ==
  { <<>>,
    << <<>>, <<>>, <<"F", "A", "Q", "s">>, <<"Q", ":", " ", "x">>, <<"A", ":", " ", "u">> >>,
    << <<"F", "A", "Q">>, <<"Q", ":", " ", "x">>, <<"A", ":", " ", "u">>,
       <<"Q", ".", " ", "y">>, <<"A", ".", " ", "v">> >> }

\* A response and how it was built: one table literal inside other text, or up
\* to MaxCands directive lines and a tail.
Responses ==
  {[text |-> pre \o TableTag \o TableLiteral(c) \o suf, given |-> Some([literal |-> TableLiteral(c)])] :
      pre \in {<<>>, <<"x", "\n">>}, c \in Cells,
      suf \in {<<>>, <<"\n", "F", "A", "Q", "\n", "Q", ":", "x", "\n", "A", ":", "u">>}}
  \cup
  {[text |-> JoinLines(d \o t), given |-> None] :
      d \in SeqsUpTo(DirectiveLines, MaxCands), t \in FaqTails}

\* The topics entered: none, white space only, a word, a padded word.
Topics == {<<>>, <<" ">>, <<"x">>, <<" ", "x">>}

\* ------------------------------------------------------ the generation flow

\* A variant of TopicMissing without the strip ("if not topic:").
TopicMissingUnstripped(t) == t = <<>>

\* "if not topic.strip():" (line 189)
TopicMissing(t) == Strip(t) = <<>>

FlowInit ==
  /\ pc = "start"
  /\ topic \in Topics
  /\ FlowRest
  /\ content = <<>>
  /\ faqs = <<>>
  /\ given = None
  /\ faq_text = <<>>
  /\ lines = <<>>
  /\ q = None
  /\ a = None

\* Lines 188-195: the button was pressed; the topic check, then the keywords.
Generate ==
  /\ pc = "start"
  /\ IF TopicMissing(topic)
       THEN /\ did' = did \cup {"error_shown"}
            /\ pc' = "stopped"
       ELSE /\ did' = did \cup {"keywords_extracted"}
            /\ pc' = "api"
  /\ UNCHANGED <<faqVars, content, faqs, given, topic, error, raw_tables, raw_graphs,
                 display_content, idx, rendered_tables_html, rendered_graphs_html,
                 warnings, tried, faq_schema, final_html, downloads>>

\* Lines 218-229: the call of the API, which returns a response or raises; no
\* try statement encloses it, so what it raises leaves the script.
CallApi ==
  /\ pc = "api"
  /\ did' = did \cup {"api_called"}
  /\ \/ /\ error' = Some("api")
        /\ pc' = "uncaught"
        /\ UNCHANGED <<content, given>>
     \/ \E r \in Responses :
          /\ content' = NormalizeSpacing(r.text)
          /\ given' = r.given
          /\ pc' = "extract"
          /\ UNCHANGED error
  /\ UNCHANGED <<faqVars, faqs, topic, raw_tables, raw_graphs, display_content, idx,
                 rendered_tables_html, rendered_graphs_html, warnings, tried,
                 faq_schema, final_html, downloads>>

\* Lines 231-239: the candidates of both tags, and the article shown without them.
ExtractBlocks ==
  /\ pc = "extract"
  /\ raw_tables' = FindBlocks(content, TABLE)
  /\ raw_graphs' = FindBlocks(content, GRAPH)
  /\ display_content' = RemoveBlocks(content)
  /\ did' = did \cup {"article_shown"}
  /\ idx' = 1
  /\ pc' = "tables"
  /\ UNCHANGED <<faqVars, content, faqs, given, topic, error, rendered_tables_html,
                 rendered_graphs_html, warnings, tried, faq_schema, final_html,
                 downloads>>

\* A variant of TableStep with the try statement around the whole loop: the first
\* failure warns and ends the loop.
TableStepAborts ==
  /\ pc = "tables"
  /\ idx <= Len(raw_tables)
  /\ \E renders \in BOOLEAN :
       LET ok == LiteralEvalOk(raw_tables[idx]) /\ renders
       IN  /\ tried' = Append(tried, [tag |-> "TABLE", idx |-> idx, ok |-> ok])
           /\ IF ok
                THEN /\ rendered_tables_html' =
                          Append(rendered_tables_html, <<"table", raw_tables[idx]>>)
                     /\ idx' = idx + 1
                     /\ UNCHANGED warnings
                ELSE /\ warnings' = Append(warnings, <<"TABLE", idx>>)
                     /\ idx' = Len(raw_tables) + 1
                     /\ UNCHANGED rendered_tables_html
  /\ UNCHANGED <<faqVars, pc, content, faqs, given, topic, did, error, raw_tables, raw_graphs,
                 display_content, rendered_graphs_html, faq_schema, final_html,
                 downloads>>

\* Lines 245-252: one candidate of the table loop in its own try block.  The
\* literal is evaluated; building and rendering the table are calls into pandas
\* and markdown, which return or raise.
TableStep ==
  /\ pc = "tables"
  /\ idx <= Len(raw_tables)
  /\ \E renders \in BOOLEAN :
       LET ok == LiteralEvalOk(raw_tables[idx]) /\ renders
       IN  /\ tried' = Append(tried, [tag |-> "TABLE", idx |-> idx, ok |-> ok])
           /\ IF ok
                THEN /\ rendered_tables_html' =
                          Append(rendered_tables_html, <<"table", raw_tables[idx]>>)
                     /\ UNCHANGED warnings
                ELSE /\ warnings' = Append(warnings, <<"TABLE", idx>>)
                     /\ UNCHANGED rendered_tables_html
  /\ idx' = idx + 1
  /\ UNCHANGED <<faqVars, pc, content, faqs, given, topic, did, error, raw_tables, raw_graphs,
                 display_content, rendered_graphs_html, faq_schema, final_html,
                 downloads>>

\* The table loop is over (or "if raw_tables:" was false).
TablesDone ==
  /\ pc = "tables"
  /\ idx > Len(raw_tables)
  /\ pc' = "graphs"
  /\ idx' = 1
  /\ UNCHANGED <<faqVars, content, faqs, given, topic, did, error, raw_tables, raw_graphs,
                 display_content, rendered_tables_html, rendered_graphs_html,
                 warnings, tried, faq_schema, final_html, downloads>>

\* Lines 258-283: one candidate of the graph loop in its own try block; drawing
\* and encoding the figure are calls into matplotlib and markdown.
GraphStep ==
  /\ pc = "graphs"
  /\ idx <= Len(raw_graphs)
  /\ \E renders \in BOOLEAN :
       LET ok == LiteralEvalOk(raw_graphs[idx]) /\ renders
       IN  /\ tried' = Append(tried, [tag |-> "GRAPH", idx |-> idx, ok |-> ok])
           /\ IF ok
                THEN /\ rendered_graphs_html' =
                          Append(rendered_graphs_html, <<"graph", raw_graphs[idx]>>)
                     /\ UNCHANGED warnings
                ELSE /\ warnings' = Append(warnings, <<"GRAPH", idx>>)
                     /\ UNCHANGED rendered_graphs_html
  /\ idx' = idx + 1
  /\ UNCHANGED <<faqVars, pc, content, faqs, given, topic, did, error, raw_tables, raw_graphs,
                 display_content, rendered_tables_html, faq_schema, final_html,
                 downloads>>

GraphsDone ==
  /\ pc = "graphs"
  /\ idx > Len(raw_graphs)
  /\ pc' = "faq"
  /\ idx' = 1
  /\ UNCHANGED <<faqVars, content, faqs, given, topic, did, error, raw_tables, raw_graphs,
                 display_content, rendered_tables_html, rendered_graphs_html,
                 warnings, tried, faq_schema, final_html, downloads>>

\* Lines 295-297: the FAQ pairs and their schema.
BuildFaqs ==
  /\ pc = "faq"
  /\ faqs' = ExtractFaqs(content)
  /\ faq_schema' = BuildFaqJsonLd(ExtractFaqs(content))
  /\ pc' = "assemble"
  /\ UNCHANGED <<faqVars, content, given, topic, did, error, raw_tables, raw_graphs,
                 display_content, idx, rendered_tables_html, rendered_graphs_html,
                 warnings, tried, final_html, downloads>>

\* Lines 311-364: the document and the downloads.  md.escape (line 326) is a call
\* into the markdown package outside any try statement: it returns or raises.
Assemble ==
  /\ pc = "assemble"
  /\ \E escapes \in BOOLEAN :
       IF escapes
         THEN /\ final_html' = Some([faq_script_tag |-> faq_schema,
                                     body |-> display_content,
                                     tables |-> rendered_tables_html,
                                     graphs |-> rendered_graphs_html])
              /\ downloads' = {"txt", "html"}
                                \cup (IF faq_schema # None THEN {"faq_json"} ELSE {})
              /\ did' = did \cup {"html_built", "downloads_offered"}
              /\ pc' = "done"
              /\ UNCHANGED error
         ELSE /\ error' = Some("escape")
              /\ pc' = "uncaught"
              /\ UNCHANGED <<final_html, downloads, did>>
  /\ UNCHANGED <<faqVars, content, faqs, given, topic, raw_tables, raw_graphs,
                 display_content, idx, rendered_tables_html, rendered_graphs_html,
                 warnings, tried, faq_schema>>

Next ==
  \/ Generate
  \/ CallApi
  \/ ExtractBlocks
  \/ TableStep
  \/ TablesDone
  \/ GraphStep
  \/ GraphsDone
  \/ BuildFaqs
  \/ Assemble

Spec == FlowInit /\ [][Next]_vars

\* ================================================================ claims

\* ---- extract_faqs_from_text (checked under SpecFaq)

Returned == pc = "faq_returned"

\* The pairs a response built from the pairs ps is said to yield.
ExpectedPairs(ps) == [i \in 1..Len(ps) |-> Pair(Strip(ps[i].q), Strip(ps[i].a))]

NonBlank(t) == \E i \in 1..Len(t) : t[i] \notin {" ", "\t", "\n"}

\* C1 as stated: a heading line followed by N pairs of lines Q: <q> / A: <a>, for
\* any texts q and a, yields exactly the N pairs, trimmed, in order.
C1_AnyTexts ==
  Returned /\ given # None => faqs = ExpectedPairs(given[1].pairs)

\* C1 as amended: a heading line followed by N >= 1 pairs of lines Q: <q> / A: <a>
\* whose texts q and a each hold a character that is not white space yields
\* exactly the N pairs, trimmed, in order; with N = 0 and a heading line without
\* a bullet character the result is empty.
C1_NonBlankTexts ==
  Returned /\ given # None =>
    LET ps == given[1].pairs
        h  == given[1].heading
    IN  (/\ \A i \in 1..Len(ps) : NonBlank(ps[i].q) /\ NonBlank(ps[i].a)
         /\ ps = <<>> => \A i \in 1..Len(h) : h[i] \notin {"-", "*"})
          => (faqs = ExpectedPairs(ps))

\* Two different pairs with white space to trim came back, in order.
C1_Witness ==
  /\ Returned
  /\ given # None
  /\ Len(given[1].pairs) = 2
  /\ \A i \in 1..2 : NonBlank(given[1].pairs[i].q) /\ NonBlank(given[1].pairs[i].a)
  /\ given[1].pairs[1].q = <<"x">>
  /\ given[1].pairs[2].q = <<" ", "y", " ">>
  /\ faqs = <<Pair(<<"x">>, <<"u">>), Pair(<<"y">>, <<"v", " ", "w">>)>>

\* The headings the claim names, matched without regard to case.
ClaimHeadings ==
  { <<"f","r","e","q","u","e","n","t","l","y"," ","a","s","k","e","d"," ",
      "q","u","e","s","t","i","o","n","s">>,
    <<"f", "a", "q", "s">>,
    <<"f", "a", "q">> }
LowerText(s) == [i \in 1..Len(s) |-> Lower(s[i])]
Occurs(s, p) == \E i \in 1..Len(s) : MatchAt(s, i, p)
HasFaqHeading(s) == \E h \in ClaimHeadings : Occurs(LowerText(s), h)

\* C7: a text without any FAQ heading yields the empty sequence, whatever Q:/A:
\* lines or bullet lines it holds.
C7_NoHeadingNoFaqs == Returned /\ ~HasFaqHeading(content) => faqs = <<>>

\* A text without heading that holds a Q: line, an A: line and a bullet line.
C7_Witness ==
  /\ Returned
  /\ ~HasFaqHeading(content)
  /\ Occurs(content, <<"Q", ":", " ", "x", "\n", "A", ":", " ", "u">>)
  /\ Occurs(content, <<"\n", "-", " ", "x", " ", "-", " ", "u">>)
  /\ faqs = <<>>

\* A line that starts a new question: Q:/Q. or the bullet form - Q: / * Q:.
StartsQuestion(l) == IsQLine(Strip(l)) \/ IsBulletQLine(Strip(l))

RECURSIVE CountQuestions(_)
CountQuestions(ls) ==
  IF ls = <<>> THEN 0
  ELSE (IF StartsQuestion(Head(ls)) THEN 1 ELSE 0) + CountQuestions(Tail(ls))

\* The lines after the heading, and those of them the scan has gone through.
BodyLines == Tail(SplitLines(faq_text))
ScannedLines == SubSeq(BodyLines, 1, Len(BodyLines) - Len(lines))

\* C8: in the primary scan a pair is appended exactly when a new question line
\* starts or the input ends while the current question and the current answer
\* are both non-empty (otherwise the output is left as it is, so a question whose
\* answer is empty then is dropped), and the pairs appended never outnumber the
\* questions that were closed: no question is committed twice.
C8_CommitRule ==
  /\ [][pc = "faq_scan" =>
          IF /\ lines = <<>> \/ StartsQuestion(Head(lines))
             /\ q # None /\ a # None /\ q[1] # <<>> /\ a[1] # <<>>
          THEN faqs' = Append(faqs, Pair(Strip(q[1]), Strip(a[1])))
          ELSE faqs' = faqs]_vars
  /\ [](pc = "faq_scan" =>
          Len(faqs) <= CountQuestions(ScannedLines) - (IF q = None THEN 0 ELSE 1))
  /\ [](pc = "faq_fallback" => Len(faqs) <= CountQuestions(BodyLines))

\* The scan is over: of two questions one was committed and the one without an
\* answer was dropped.
C8_Witness ==
  /\ pc = "faq_fallback"
  /\ CountQuestions(BodyLines) = 2
  /\ Len(faqs) = 1
  /\ a = Some(<<>>)

\* The scan the claim C9 describes: a Q:/Q. line starts a new pair, an A:/A.
\* line gives its answer, every other non-empty line is appended to the current
\* answer with one space, lines before the first question are ignored.
ClaimLine(st, line) ==
  LET ls == Strip(line)
  IN  IF IsQLine(ls)
        THEN [q |-> Some(SubMarker(ls)), a |-> <<>>,
              faqs |-> IF st.q # None /\ st.q[1] # <<>> /\ Strip(st.a) # <<>>
                         THEN Append(st.faqs, Pair(Strip(st.q[1]), Strip(st.a)))
                         ELSE st.faqs]
      ELSE IF st.q = None THEN st
      ELSE IF IsALine(ls) THEN [st EXCEPT !.a = SubMarker(ls)]
      ELSE IF ls # <<>> THEN [st EXCEPT !.a = st.a \o <<" ">> \o ls]
      ELSE st

RECURSIVE ClaimScan(_, _)
ClaimScan(st, ls) ==
  IF ls = <<>>
    THEN (IF st.q # None /\ st.q[1] # <<>> /\ Strip(st.a) # <<>>
            THEN Append(st.faqs, Pair(Strip(st.q[1]), Strip(st.a)))
            ELSE st.faqs)
    ELSE ClaimScan(ClaimLine(st, Head(ls)), Tail(ls))

QuestionStarts(bl) == {i \in 1..Len(bl) : StartsQuestion(bl[i])}
PairEnd(bl, i) ==
  LET later == {j \in QuestionStarts(bl) : j > i}
  IN  IF later = {} THEN Len(bl) ELSE Min(later) - 1
AnswerLines(bl, i) == {j \in (i + 1)..PairEnd(bl, i) : IsALine(Strip(bl[j]))}

QuestionOf(bl, i) ==
  IF IsQLine(Strip(bl[i])) THEN SubMarker(Strip(bl[i])) ELSE BulletQuestion(Strip(bl[i]))

\* Each of the lines from..to of bl, stripped, after one space.
RECURSIVE Spaced(_, _, _)
Spaced(bl, from, to) ==
  IF from > to THEN <<>> ELSE <<" ">> \o Strip(bl[from]) \o Spaced(bl, from + 1, to)

\* The answer of the pair that starts at line i, before it is trimmed: the text
\* of its last answer line (without one, what the question line gives) and every
\* line after that.
AnswerOf(bl, i) ==
  IF AnswerLines(bl, i) = {}
    THEN (IF IsQLine(Strip(bl[i])) THEN <<>> ELSE BulletAnswer(Strip(bl[i])))
           \o Spaced(bl, i + 1, PairEnd(bl, i))
    ELSE SubMarker(Strip(bl[Max(AnswerLines(bl, i))]))
           \o Spaced(bl, Max(AnswerLines(bl, i)) + 1, PairEnd(bl, i))

RECURSIVE PairsFrom(_, _)
PairsFrom(bl, starts) ==
  IF starts = {} THEN <<>>
  ELSE LET i == Min(starts)
       IN  (IF QuestionOf(bl, i) # <<>> /\ AnswerOf(bl, i) # <<>>
              THEN <<Pair(Strip(QuestionOf(bl, i)), Strip(AnswerOf(bl, i)))>>
              ELSE <<>>)
             \o PairsFrom(bl, starts \ {i})

C10_NoEmptyText ==
  Returned =>
    \A i \in 1..Len(faqs) : Strip(faqs[i].question) # <<>> /\ Strip(faqs[i].answer) # <<>>

\* ---- the generation flow (checked under Spec)

\* The two loops are behind the run.
LoopsOver == pc \in {"faq", "assemble", "done"} \/ (pc = "uncaught" /\ error = Some("escape"))

TriedOf(tag) == SelectSeq(tried, LAMBDA r : r.tag = tag)
OkOf(tag) == SelectSeq(tried, LAMBDA r : r.tag = tag /\ r.ok)
Failed == SelectSeq(tried, LAMBDA r : ~r.ok)

\* C2: each candidate of either tag is tried once, in order, whatever became of
\* the others; the rendered lists are the candidates that did not fail, in
\* their order, and the warnings name the failed ones, one each.
C2_PerDirectiveIsolation ==
  LoopsOver =>
    /\ [i \in 1..Len(TriedOf("TABLE")) |-> TriedOf("TABLE")[i].idx]
         = [i \in 1..Len(raw_tables) |-> i]
    /\ [i \in 1..Len(TriedOf("GRAPH")) |-> TriedOf("GRAPH")[i].idx]
         = [i \in 1..Len(raw_graphs) |-> i]
    /\ rendered_tables_html
         = [i \in 1..Len(OkOf("TABLE")) |-> <<"table", raw_tables[OkOf("TABLE")[i].idx]>>]
    /\ rendered_graphs_html
         = [i \in 1..Len(OkOf("GRAPH")) |-> <<"graph", raw_graphs[OkOf("GRAPH")[i].idx]>>]
    /\ warnings = [i \in 1..Len(Failed) |-> <<Failed[i].tag, Failed[i].idx>>]

\* A table whose literal does not evaluate was skipped with a warning, and a
\* table and a graph after it were rendered.
C2_Witness ==
  /\ pc = "done"
  /\ \E i, j, k \in 1..Len(tried) :
       /\ i < j /\ j < k
       /\ tried[i].tag = "TABLE" /\ ~LiteralEvalOk(raw_tables[tried[i].idx])
       /\ tried[j].tag = "TABLE" /\ tried[j].ok
       /\ tried[k].tag = "GRAPH" /\ tried[k].ok
  /\ Len(rendered_tables_html) = 1
  /\ Len(rendered_graphs_html) = 1
  /\ warnings = <<<<"TABLE", 1>>>>

\* C3: when the response holds "TABLE: " followed by a well-formed table literal
\* L, whose cells may hold braces, find_blocks returns exactly one candidate, and
\* it is L.
C3_ExactLiteral ==
  pc \in {"tables", "graphs", "faq", "assemble", "done"} /\ given # None =>
    raw_tables = <<given[1].literal>>

\* C4: for no FAQ pairs the schema is absent, and the document assembled then has
\* no ld+json script tag and no FAQ JSON download is offered; for pairs the
\* schema has one Question per pair, in the same order.
C4_SchemaOnlyForPairs ==
  /\ pc \in {"assemble", "done"} =>
       IF faqs = <<>> THEN faq_schema = None
       ELSE /\ faq_schema # None
            /\ faq_schema[1].type = "FAQPage"
            /\ Len(faq_schema[1].mainEntity) = Len(faqs)
            /\ \A i \in 1..Len(faqs) :
                 /\ faq_schema[1].mainEntity[i].type = "Question"
                 /\ faq_schema[1].mainEntity[i].name = faqs[i].question
                 /\ faq_schema[1].mainEntity[i].acceptedAnswer.text = faqs[i].answer
  /\ pc = "done" /\ faqs = <<>> =>
       /\ final_html # None
       /\ final_html[1].faq_script_tag = None
       /\ "faq_json" \notin downloads

\* The document of a response without FAQ pairs was assembled.
C4_Witness ==
  /\ pc = "done"
  /\ faqs = <<>>
  /\ final_html # None
  /\ downloads = {"txt", "html"}

\* C5: a failure of the API call is caught around the flow and shown as a
\* message; the exception does not leave the flow uncaught, and no article,
\* document or download is produced.
C5_ApiFailureCaught ==
  error = Some("api") =>
    /\ pc # "uncaught"
    /\ "error_shown" \in did
    /\ "article_shown" \notin did
    /\ final_html = None
    /\ downloads = {}

\* C6: with an empty or white-space-only topic the run shows an error and does
\* nothing else: no keywords, no API call, no parsing, no export.
C6_BlankTopicBlocks ==
  pc # "start" /\ ~NonBlank(topic) =>
    /\ pc = "stopped"
    /\ did = {"error_shown"}
    /\ content = <<>>
    /\ raw_tables = <<>> /\ raw_graphs = <<>>
    /\ tried = <<>>
    /\ faq_schema = None
    /\ final_html = None
    /\ downloads = {}

\* The run stopped on a topic of white space alone.
C6_Witness == pc = "stopped" /\ topic = <<" ">> /\ did = {"error_shown"}

====
